---- MODULE Spec2Model ----
(***************************************************************************)
(* Model of Pythonscripts/metrics.py (container monitor) and               *)
(* Pythonscripts/container_load_test.py (load injector).                   *)
(*                                                                         *)
(* The two scripts are separate processes sharing no state: Init starts    *)
(* one of them and the other one stays idle.                               *)
(*                                                                         *)
(* Percentages are Python floats in the source.  They are modelled as      *)
(* exact rationals [n, d] in lowest terms (d > 0), so comparisons with a   *)
(* threshold are exact; float rounding is outside the model.               *)
(***************************************************************************)
EXTENDS Integers, Sequences, FiniteSets, TLC

VARIABLES
    prog,        \* which script this process runs: "monitor" or "injector"
    mon_pc,      \* monitor_containers: "idle", "start", "loop", "done", "aborted"
    mon_n,       \* number of containers returned by client.containers.list()
    mon_i,       \* 1-based index of the next container of the for loop
    mon_fetch,   \* outcome of the last container.stats(stream=False)
    mon_result,  \* what the last get_container_stats call returned or raised
    mon_log,     \* per container, what the pass printed and sent
    inj_pc,      \* main: "idle", "parse", "client", "loop", "done", "rejected", "aborted"
    inj_argv,    \* the command line given to the load injector
    inj_args,    \* the argparse namespace (containers, mode, duration)
    inj_i,       \* 1-based index of the next name of the for loop
    inj_log      \* per container name, what main and run_stress did

mon_vars == <<mon_pc, mon_n, mon_i, mon_fetch, mon_result, mon_log>>
inj_vars == <<inj_pc, inj_argv, inj_args, inj_i, inj_log>>
vars == <<prog, mon_vars, inj_vars>>

(***************************************************************************)
(* Bounds                                                                  *)
(***************************************************************************)
MaxContainers == 2

(***************************************************************************)
(* Configuration of metrics.py                                             *)
(***************************************************************************)
CPU_THRESHOLD == 70
MEM_THRESHOLD == 70

(***************************************************************************)
(* Exact rationals standing for the floats of metrics.py                   *)
(***************************************************************************)
Abs(x) == IF x < 0 THEN -x ELSE x

RECURSIVE GCD(_, _)
GCD(a, b) == IF b = 0 THEN a ELSE GCD(b, a % b)

\* n / d in lowest terms with a positive denominator (d # 0)
Rat(n, d) ==
    LET g == GCD(Abs(n), Abs(d))
        s == IF d < 0 THEN -1 ELSE 1
    IN  [n |-> (s * n) \div g, d |-> (s * d) \div g]

RatMul(r, k) == Rat(r.n * k, r.d)

RatGT(r, k) == r.n > k * r.d

Zero == Rat(0, 1)

(***************************************************************************)
(* Inputs of the monitor: what container.stats(stream=False) answers       *)
(***************************************************************************)
\* the previous snapshot is fixed and the current one varies around it, so
\* that each delta is negative, zero and positive
PreCpuTotals == {100}
CpuTotals == {50, 100, 135, 150}
PreSysTotals == {1000}
SysTotals == {800, 1000, 1200}
CoreCounts == {1, 4}
MemUsages == {0, 700, 701}
MemLimits == {0, 1000}

StatsSamples ==
    [pre_cpu : PreCpuTotals, cpu : CpuTotals, pre_sys : PreSysTotals, sys : SysTotals,
     cores : CoreCounts, mem_usage : MemUsages, mem_limit : MemLimits]

NoStats ==
    [pre_cpu |-> 0, cpu |-> 0, pre_sys |-> 0, sys |-> 0,
     cores |-> 0, mem_usage |-> 0, mem_limit |-> 0]

\* container.stats either raises (API error, container gone) or returns a sample
FetchOutcomes ==
    {[ok |-> FALSE, stats |-> NoStats]} \cup {[ok |-> TRUE, stats |-> s] : s \in StatsSamples}

\* what the SMTP conversation of send_email_alert does
SmtpOutcomes == {"ok", "connect_fail", "starttls_fail", "login_fail", "send_fail"}

NoResult == [raised |-> FALSE, error |-> "none", cpu_usage |-> Zero, mem_usage |-> Zero]

(***************************************************************************)
(* metrics.py                                                              *)
(***************************************************************************)
cpu_delta(stats) == stats.cpu - stats.pre_cpu

system_delta(stats) == stats.sys - stats.pre_sys

\* cpu_usage_of without the guard on cpu_delta
cpu_usage_of_NoCpuGuard(stats) ==
    IF system_delta(stats) > 0
    THEN [raised |-> FALSE,
          value |-> RatMul(RatMul(Rat(cpu_delta(stats), system_delta(stats)), stats.cores), 100)]
    ELSE [raised |-> FALSE, value |-> Zero]

\* lines 52-54: the local cpu_usage, or ZeroDivisionError (never with this guard)
cpu_usage_of(stats) ==
    IF system_delta(stats) > 0 /\ cpu_delta(stats) > 0
    THEN [raised |-> FALSE,
          value |-> RatMul(RatMul(Rat(cpu_delta(stats), system_delta(stats)), stats.cores), 100)]
    ELSE [raised |-> FALSE, value |-> Zero]

\* mem_usage_of reporting 0% instead of raising when the limit is 0
mem_usage_of_ZeroLimitIsZero(stats) ==
    IF stats.mem_limit = 0
    THEN [raised |-> FALSE, value |-> Zero]
    ELSE [raised |-> FALSE, value |-> RatMul(Rat(stats.mem_usage, stats.mem_limit), 100)]

\* lines 56-58: the local mem_usage, or ZeroDivisionError when the limit is 0
mem_usage_of(stats) ==
    IF stats.mem_limit = 0
    THEN [raised |-> TRUE, value |-> Zero]
    ELSE [raised |-> FALSE, value |-> RatMul(Rat(stats.mem_usage, stats.mem_limit), 100)]

\* the pair returned, or the exception raised and where ("stats": the stats
\* call, "cpu_div" / "mem_div": a division); cpu_usage and mem_usage are the
\* locals at that point
get_container_stats(fetch) ==
    IF ~fetch.ok
    THEN [raised |-> TRUE, error |-> "stats", cpu_usage |-> Zero, mem_usage |-> Zero]
    ELSE LET c == cpu_usage_of(fetch.stats)
             m == mem_usage_of(fetch.stats)
         IN  IF c.raised
             THEN [raised |-> TRUE, error |-> "cpu_div", cpu_usage |-> Zero, mem_usage |-> Zero]
             ELSE IF m.raised
             THEN [raised |-> TRUE, error |-> "mem_div", cpu_usage |-> c.value, mem_usage |-> Zero]
             ELSE [raised |-> FALSE, error |-> "none", cpu_usage |-> c.value, mem_usage |-> m.value]

\* ThresholdExceeded with >= in place of >
ThresholdExceeded_AtOrAbove(cpu_usage, mem_usage) ==
    \/ cpu_usage.n >= CPU_THRESHOLD * cpu_usage.d
    \/ mem_usage.n >= MEM_THRESHOLD * mem_usage.d

\* line 73
ThresholdExceeded(cpu_usage, mem_usage) ==
    RatGT(cpu_usage, CPU_THRESHOLD) \/ RatGT(mem_usage, MEM_THRESHOLD)

\* send_email_alert without its try: an SMTP failure propagates
send_email_alert_NoTry(smtp) ==
    [raised |-> smtp # "ok", attempts |-> 1,
     mail |-> IF smtp = "ok" THEN "sent" ELSE "none"]

\* lines 17-39: one call is one SMTP conversation; any failure of it is caught
\* and printed
send_email_alert(smtp) ==
    [raised |-> FALSE, attempts |-> 1,
     mail |-> IF smtp = "ok" THEN "sent" ELSE "failed"]

\* lines 66-78: body of the for loop of monitor_containers for one container:
\* what was printed (kind), how many times send_email_alert was called (sends),
\* what its SMTP conversation did (smtp) and what it printed (mail); an
\* exception from anywhere in the try is printed as an error.  r is what the
\* call of get_container_stats returned or raised
MonitorBody(r, smtp) ==
    IF r.raised
    THEN [kind |-> "error", sends |-> 0, smtp |-> "none", mail |-> "none"]
    ELSE IF ThresholdExceeded(r.cpu_usage, r.mem_usage)
    THEN LET m == send_email_alert(smtp) IN
         IF m.raised
         THEN [kind |-> "error", sends |-> m.attempts, smtp |-> smtp, mail |-> "none"]
         ELSE [kind |-> "alert", sends |-> m.attempts, smtp |-> smtp, mail |-> m.mail]
    ELSE [kind |-> "healthy", sends |-> 0, smtp |-> "none", mail |-> "none"]

\* lines 68-74: whether the body reaches the call of send_email_alert, that is
\* whether an SMTP conversation takes place at all
sends_alert(r) ==
    ~r.raised /\ ThresholdExceeded(r.cpu_usage, r.mem_usage)

\* docker.from_env() and client.containers.list(), outside any try
MonStart ==
    /\ prog = "monitor"
    /\ mon_pc = "start"
    /\ \E ok \in BOOLEAN :
         IF ok
         THEN \E n \in 0..MaxContainers :
                /\ mon_pc' = "loop"
                /\ mon_n' = n
         ELSE /\ mon_pc' = "aborted"
              /\ mon_n' = mon_n
    /\ UNCHANGED <<prog, mon_i, mon_fetch, mon_result, mon_log, inj_vars>>

MonitorContainer ==
    /\ mon_pc = "loop"
    /\ mon_i <= mon_n
    /\ \E fetch \in FetchOutcomes :
         LET r == get_container_stats(fetch) IN
         \E smtp \in IF sends_alert(r) THEN SmtpOutcomes ELSE {"none"} :
           /\ mon_fetch' = fetch
           /\ mon_result' = r
           /\ mon_log' = Append(mon_log, MonitorBody(r, smtp))
    /\ mon_i' = mon_i + 1
    /\ UNCHANGED <<prog, mon_pc, mon_n, inj_vars>>

MonFinish ==
    /\ mon_pc = "loop"
    /\ mon_i > mon_n
    /\ mon_pc' = "done"
    /\ UNCHANGED <<prog, mon_n, mon_i, mon_fetch, mon_result, mon_log, inj_vars>>

MonInit ==
    /\ mon_pc = "start"
    /\ mon_n = 0
    /\ mon_i = 1
    /\ mon_fetch = [ok |-> FALSE, stats |-> NoStats]
    /\ mon_result = NoResult
    /\ mon_log = <<>>

MonIdle ==
    /\ mon_pc = "idle"
    /\ mon_n = 0
    /\ mon_i = 1
    /\ mon_fetch = [ok |-> FALSE, stats |-> NoStats]
    /\ mon_result = NoResult
    /\ mon_log = <<>>

(***************************************************************************)
(* Inputs of the load injector                                             *)
(***************************************************************************)
\* text given after --mode and after --duration; "" when the option is omitted
ModeArgs == {"", "cpu", "mem", "both", "gpu"}
DurationArgs == {"", "30", "0", "-5", "abc"}

Argvs == [containers : 0..MaxContainers, mode : ModeArgs, duration : DurationArgs]

\* exit codes are optional integers: {} is None, {c} is the code c
ProbeOutcomes ==
    {[raised |-> TRUE, exit_code |-> {}],
     [raised |-> FALSE, exit_code |-> {0}],
     [raised |-> FALSE, exit_code |-> {1}]}

\* exec_run(cmd, detach=True): raises, or returns an exit code and an output
\* that is bytes or (detached) text
ExecOutcomes ==
    {[raised |-> TRUE, exit_code |-> {}, output |-> "none"]}
    \cup [raised : {FALSE}, exit_code : {{}, {0}, {126}}, output : {"bytes", "str"}]

NoProbe == [raised |-> FALSE, exit_code |-> {}]

NoExec == [raised |-> FALSE, exit_code |-> {}, output |-> "none"]

NoCmd == [prog |-> "none", cpu |-> 0, vm |-> 0, vm_bytes |-> 0, timeout |-> {},
          script |-> "none", threads |-> 0]

NoArgs == [ok |-> FALSE, containers |-> 0, mode |-> "", duration |-> 0]

(***************************************************************************)
(* container_load_test.py                                                  *)
(***************************************************************************)
\* int(text) of argparse's type=int: {} when it raises ValueError
IntOf(text) ==
    CASE text = "30" -> {30}
      [] text = "0" -> {0}
      [] text = "-5" -> {-5}
      [] OTHER -> {}

\* parser.parse_args(): nargs="+" and required for --containers, choices and
\* default "cpu" for --mode, type=int and default 60 for --duration
parse_args(argv) ==
    IF \/ argv.containers = 0
       \/ argv.mode \notin {"", "cpu", "mem", "both"}
       \/ (argv.duration # "" /\ IntOf(argv.duration) = {})
    THEN NoArgs
    ELSE [ok |-> TRUE,
          containers |-> argv.containers,
          mode |-> IF argv.mode = "" THEN "cpu" ELSE argv.mode,
          duration |-> IF argv.duration = "" THEN 60
                       ELSE CHOOSE d \in IntOf(argv.duration) : TRUE]

\* has_stress_ng_of without its try: a probe that raises propagates
has_stress_ng_of_NoTry(probe) ==
    IF probe.raised
    THEN [raised |-> TRUE, warned |-> FALSE, value |-> FALSE]
    ELSE [raised |-> FALSE, warned |-> FALSE, value |-> (probe.exit_code = {0})]

\* lines 8-13: the probe "which stress-ng"
has_stress_ng_of(probe) ==
    IF probe.raised
    THEN [raised |-> FALSE, warned |-> TRUE, value |-> FALSE]
    ELSE [raised |-> FALSE, warned |-> FALSE, value |-> (probe.exit_code = {0})]

\* select_cmd whose "both" branches are swapped between tool and fallback:
\* with the tool, CPU workers only; in the fallback, the append loop
select_cmd_BothSwapped(mode, duration, has_stress_ng) ==
    IF has_stress_ng
    THEN IF mode = "mem"
         THEN [prog |-> "stress-ng", cpu |-> 0, vm |-> 2, vm_bytes |-> 90,
               timeout |-> {duration}, script |-> "none", threads |-> 0]
         ELSE [prog |-> "stress-ng", cpu |-> 4, vm |-> 0, vm_bytes |-> 0,
               timeout |-> {duration}, script |-> "none", threads |-> 0]
    ELSE IF mode = "cpu"
         THEN [prog |-> "python3", cpu |-> 0, vm |-> 0, vm_bytes |-> 0,
               timeout |-> {}, script |-> "sqrt_threads", threads |-> 4]
         ELSE [prog |-> "python3", cpu |-> 0, vm |-> 0, vm_bytes |-> 0,
               timeout |-> {}, script |-> "append_loop", threads |-> 0]

\* lines 15-30: the command line
select_cmd(mode, duration, has_stress_ng) ==
    IF has_stress_ng
    THEN IF mode = "cpu"
         THEN [prog |-> "stress-ng", cpu |-> 4, vm |-> 0, vm_bytes |-> 0,
               timeout |-> {duration}, script |-> "none", threads |-> 0]
         ELSE IF mode = "mem"
         THEN [prog |-> "stress-ng", cpu |-> 0, vm |-> 2, vm_bytes |-> 90,
               timeout |-> {duration}, script |-> "none", threads |-> 0]
         ELSE [prog |-> "stress-ng", cpu |-> 4, vm |-> 2, vm_bytes |-> 90,
               timeout |-> {duration}, script |-> "none", threads |-> 0]
    ELSE IF mode = "cpu"
         THEN [prog |-> "python3", cpu |-> 0, vm |-> 0, vm_bytes |-> 0,
               timeout |-> {}, script |-> "sqrt_threads", threads |-> 4]
         ELSE IF mode = "mem"
         THEN [prog |-> "python3", cpu |-> 0, vm |-> 0, vm_bytes |-> 0,
               timeout |-> {}, script |-> "append_loop", threads |-> 0]
         ELSE [prog |-> "python3", cpu |-> 0, vm |-> 0, vm_bytes |-> 0,
               timeout |-> {}, script |-> "sqrt_threads", threads |-> 4]

\* exit_code_ok that takes a missing exit code for a failure
exit_code_ok_ZeroOnly(exit_code) == exit_code = {0}

\* line 36
exit_code_ok(exit_code) == exit_code \in {{0}, {}}

\* lines 34-41: one detached exec_run and the report of its outcome; decoding
\* a text output raises AttributeError, caught by the same try
dispatch(exec) ==
    IF exec.raised
    THEN [raised |-> FALSE, dispatches |-> 1, outcome |-> "failed", detail |-> "exception"]
    ELSE IF ~exit_code_ok(exec.exit_code)
    THEN [raised |-> FALSE, dispatches |-> 1, outcome |-> "failed",
          detail |-> IF exec.output = "bytes" THEN "output" ELSE "exception"]
    ELSE [raised |-> FALSE, dispatches |-> 1, outcome |-> "success", detail |-> "none"]

run_stress(mode, duration, probe, exec) ==
    LET h == has_stress_ng_of(probe) IN
    IF h.raised
    THEN [raised |-> TRUE, warned |-> FALSE, has_stress_ng |-> FALSE, cmd |-> NoCmd,
          duration |-> duration, dispatches |-> 0, outcome |-> "none", detail |-> "none"]
    ELSE LET cmd == select_cmd(mode, duration, h.value)
             d == dispatch(exec)
         IN  [raised |-> d.raised, warned |-> h.warned, has_stress_ng |-> h.value,
              cmd |-> cmd, duration |-> duration, dispatches |-> d.dispatches,
              outcome |-> d.outcome, detail |-> d.detail]

\* lines 54-59: body of the for loop of main for one name
MainBody(args, lookup_ok, probe, exec) ==
    IF ~lookup_ok
    THEN [kind |-> "no_access", probes |-> 0, probe |-> NoProbe, exec |-> NoExec,
          warned |-> FALSE, has_stress_ng |-> FALSE, cmd |-> NoCmd, duration |-> 0,
          dispatches |-> 0, outcome |-> "none", detail |-> "none"]
    ELSE LET r == run_stress(args.mode, args.duration, probe, exec) IN
         [kind |-> IF r.raised THEN "no_access" ELSE "stressed",
          probes |-> 1, probe |-> probe, exec |-> exec,
          warned |-> r.warned, has_stress_ng |-> r.has_stress_ng, cmd |-> r.cmd,
          duration |-> r.duration, dispatches |-> r.dispatches,
          outcome |-> r.outcome, detail |-> r.detail]

\* line 50: argparse exits with status 2 on a rejected command line
InjParse ==
    /\ prog = "injector"
    /\ inj_pc = "parse"
    /\ inj_args' = parse_args(inj_argv)
    /\ inj_pc' = IF parse_args(inj_argv).ok THEN "client" ELSE "rejected"
    /\ UNCHANGED <<prog, inj_argv, inj_i, inj_log, mon_vars>>

\* line 51: docker.from_env(), outside any try
InjClient ==
    /\ inj_pc = "client"
    /\ \E ok \in BOOLEAN : inj_pc' = IF ok THEN "loop" ELSE "aborted"
    /\ UNCHANGED <<prog, inj_argv, inj_args, inj_i, inj_log, mon_vars>>

InjContainer ==
    /\ inj_pc = "loop"
    /\ inj_i <= inj_args.containers
    /\ \E lookup_ok \in BOOLEAN, probe \in ProbeOutcomes, exec \in ExecOutcomes :
         inj_log' = Append(inj_log, MainBody(inj_args, lookup_ok, probe, exec))
    /\ inj_i' = inj_i + 1
    /\ UNCHANGED <<prog, inj_pc, inj_argv, inj_args, mon_vars>>

InjFinish ==
    /\ inj_pc = "loop"
    /\ inj_i > inj_args.containers
    /\ inj_pc' = "done"
    /\ UNCHANGED <<prog, inj_argv, inj_args, inj_i, inj_log, mon_vars>>

InjInit ==
    /\ inj_pc = "parse"
    /\ inj_argv \in Argvs
    /\ inj_args = NoArgs
    /\ inj_i = 1
    /\ inj_log = <<>>

InjIdle ==
    /\ inj_pc = "idle"
    /\ inj_argv = [containers |-> 0, mode |-> "", duration |-> ""]
    /\ inj_args = NoArgs
    /\ inj_i = 1
    /\ inj_log = <<>>

(***************************************************************************)
(* Specification                                                           *)
(***************************************************************************)
Init ==
    \/ prog = "monitor" /\ MonInit /\ InjIdle
    \/ prog = "injector" /\ MonIdle /\ InjInit

Next ==
    \/ MonStart
    \/ MonitorContainer
    \/ MonFinish
    \/ InjParse
    \/ InjClient
    \/ InjContainer
    \/ InjFinish

Spec == Init /\ [][Next]_vars

(***************************************************************************)
(* Properties of the monitor                                               *)
(***************************************************************************)
\* C1: for a container whose stats were computed without error,
\* send_email_alert is called (once, and the container is printed as an alert)
\* if and only if cpu_usage > 70 or mem_usage > 70, strictly: with both
\* values at or below 70 the container is printed healthy and nothing is sent.
C1_AlertIffAboveThreshold ==
    (mon_i > 1 /\ ~mon_result.raised) =>
        LET e == mon_log[Len(mon_log)]
            c == mon_result.cpu_usage
            m == mon_result.mem_usage
            above == c.n > CPU_THRESHOLD * c.d \/ m.n > MEM_THRESHOLD * m.d
        IN  /\ above => (e.kind = "alert" /\ e.sends = 1)
            /\ ~above => (e.kind = "healthy" /\ e.sends = 0)

\* C1 witness: the second container of a pass is exactly at both thresholds
\* and healthy, after a first container that was alerted.
C1_Witness ==
    /\ Len(mon_log) = 2
    /\ mon_log[1].kind = "alert"
    /\ ~mon_result.raised
    /\ mon_result.cpu_usage = Rat(CPU_THRESHOLD, 1)
    /\ mon_result.mem_usage = Rat(MEM_THRESHOLD, 1)
    /\ mon_log[2].kind = "healthy"
    /\ mon_log[2].sends = 0

\* C2: for every snapshot pair that was fetched, cpu_usage is
\* (cpu_delta / system_delta) * cores * 100 when both deltas are positive and
\* exactly 0 otherwise; it is never negative and the CPU division never fails.
C2_CpuUsageFormula ==
    (mon_i > 1 /\ mon_fetch.ok) =>
        LET st == mon_fetch.stats
            cd == st.cpu - st.pre_cpu
            sd == st.sys - st.pre_sys
            c == mon_result.cpu_usage
        IN  /\ mon_result.error # "cpu_div"
            /\ c.d > 0
            /\ c.n >= 0
            /\ (sd > 0 /\ cd > 0) => c.n * sd = cd * st.cores * 100 * c.d
            /\ (sd <= 0 \/ cd <= 0) => c.n = 0

\* C2 witness: pre.cpu=100, cur.cpu=150, pre.sys=1000, cur.sys=1200, 4 cores
\* gives 100.
C2_Witness ==
    /\ mon_i > 1
    /\ mon_fetch.ok
    /\ mon_fetch.stats.pre_cpu = 100 /\ mon_fetch.stats.cpu = 150
    /\ mon_fetch.stats.pre_sys = 1000 /\ mon_fetch.stats.sys = 1200
    /\ mon_fetch.stats.cores = 4
    /\ mon_result.cpu_usage = [n |-> 100, d |-> 1]

\* C3: a container whose stats call fails or whose memory limit is 0 is
\* printed as an error and gets no alert; the pass goes on, so that at its end
\* every listed container has been processed.
C3_FetchErrorIsolated ==
    /\ (mon_i > 1 /\ (~mon_fetch.ok \/ mon_fetch.stats.mem_limit = 0)) =>
            /\ mon_log[Len(mon_log)].kind = "error"
            /\ mon_log[Len(mon_log)].sends = 0
    /\ (\E k \in 1..Len(mon_log) : mon_log[k].kind = "error") =>
            /\ mon_pc \in {"loop", "done"}
            /\ Len(mon_log) = mon_i - 1
            /\ (mon_pc = "done" => Len(mon_log) = mon_n)

\* C3 witness: the first container of two was printed as an error and the
\* second one was still fetched and evaluated (healthy) before the pass ended.
C3_Witness ==
    /\ mon_pc = "done"
    /\ mon_n = 2
    /\ mon_log[1].kind = "error"
    /\ mon_log[2].kind = "healthy"
    /\ mon_fetch.ok

\* C4: a container that triggers an alert gets exactly one call of
\* send_email_alert; whatever the SMTP conversation does, the failure is
\* reported by send_email_alert itself (the container stays an alert, printed
\* as sent or failed) and the pass goes on to the remaining containers.
C4_OneSendFailureCaught ==
    /\ (mon_i > 1 /\ ~mon_result.raised
           /\ ThresholdExceeded(mon_result.cpu_usage, mon_result.mem_usage)) =>
            LET e == mon_log[Len(mon_log)]
            IN  /\ e.kind = "alert"
                /\ e.sends = 1
                /\ e.smtp \in SmtpOutcomes
                /\ e.mail = IF e.smtp = "ok" THEN "sent" ELSE "failed"
    /\ \A k \in 1..Len(mon_log) :
            /\ mon_log[k].sends = IF mon_log[k].kind = "alert" THEN 1 ELSE 0
            /\ mon_log[k].mail = "failed" =>
                    /\ mon_pc \in {"loop", "done"}
                    /\ (mon_pc = "done" => Len(mon_log) = mon_n)

\* C4 witness: the login of the first container's alert failed and the second
\* container was alerted too, its mail sent.
C4_Witness ==
    /\ mon_pc = "done"
    /\ mon_n = 2
    /\ mon_log[1].kind = "alert" /\ mon_log[1].smtp = "login_fail"
    /\ mon_log[1].mail = "failed" /\ mon_log[1].sends = 1
    /\ mon_log[2].kind = "alert" /\ mon_log[2].mail = "sent" /\ mon_log[2].sends = 1

(***************************************************************************)
(* Properties of the load injector                                         *)
(***************************************************************************)
\* C5: when the probe found stress-ng, the command is stress-ng for the
\* requested mode with the requested duration as timeout: cpu -> 4 CPU
\* workers; mem -> 2 vm workers of 90%; both -> both flag sets in one command.
C5_ToolCommand ==
    \A k \in 1..Len(inj_log) :
        (inj_log[k].kind = "stressed" /\ inj_log[k].has_stress_ng) =>
            LET cmd == inj_log[k].cmd IN
            /\ cmd.prog = "stress-ng"
            /\ cmd.script = "none"
            /\ cmd.timeout = {inj_args.duration}
            /\ inj_args.mode = "cpu" => (cmd.cpu = 4 /\ cmd.vm = 0 /\ cmd.vm_bytes = 0)
            /\ inj_args.mode = "mem" => (cmd.cpu = 0 /\ cmd.vm = 2 /\ cmd.vm_bytes = 90)
            /\ inj_args.mode = "both" => (cmd.cpu = 4 /\ cmd.vm = 2 /\ cmd.vm_bytes = 90)

\* C5 witness: tool present, mode both, duration 30.
C5_Witness ==
    /\ Len(inj_log) >= 1
    /\ inj_args.mode = "both"
    /\ inj_args.duration = 30
    /\ inj_log[1].has_stress_ng
    /\ inj_log[1].dispatches = 1
    /\ inj_log[1].cmd.cpu = 4 /\ inj_log[1].cmd.vm_bytes = 90
    /\ inj_log[1].cmd.timeout = {30}

\* C6: when the probe did not find stress-ng, the command is the python3
\* fallback and carries no duration: for cpu and for both the 4 sqrt threads
\* (no memory workload), for mem the unbounded append loop.
C6_FallbackCommand ==
    \A k \in 1..Len(inj_log) :
        (inj_log[k].kind = "stressed" /\ ~inj_log[k].has_stress_ng) =>
            inj_log[k].cmd =
                IF inj_args.mode = "mem"
                THEN [prog |-> "python3", cpu |-> 0, vm |-> 0, vm_bytes |-> 0,
                      timeout |-> {}, script |-> "append_loop", threads |-> 0]
                ELSE [prog |-> "python3", cpu |-> 0, vm |-> 0, vm_bytes |-> 0,
                      timeout |-> {}, script |-> "sqrt_threads", threads |-> 4]

\* C6 witness: tool absent, mode both, duration 30: the CPU-only fallback.
C6_Witness ==
    /\ Len(inj_log) >= 1
    /\ inj_args.mode = "both"
    /\ inj_args.duration = 30
    /\ inj_log[1].kind = "stressed"
    /\ ~inj_log[1].has_stress_ng
    /\ inj_log[1].cmd.script = "sqrt_threads"
    /\ inj_log[1].dispatches = 1

\* C7: a probe that raises or exits non-zero gives has_stress_ng = FALSE and
\* run_stress still issues exactly one dispatch, of the fallback command;
\* has_stress_ng is TRUE only when the probe returned exit code 0.
C7_ProbeNeverRaises ==
    \A k \in 1..Len(inj_log) :
        inj_log[k].probes = 1 =>
            /\ inj_log[k].kind = "stressed"
            /\ inj_log[k].dispatches = 1
            /\ (inj_log[k].probe.raised \/ inj_log[k].probe.exit_code # {0}) =>
                    /\ ~inj_log[k].has_stress_ng
                    /\ inj_log[k].cmd.prog = "python3"
            /\ inj_log[k].has_stress_ng =>
                    (~inj_log[k].probe.raised /\ inj_log[k].probe.exit_code = {0})

\* C7 witness: the probe raised and the fallback was dispatched once.
C7_Witness ==
    /\ Len(inj_log) >= 1
    /\ inj_log[1].probe.raised
    /\ inj_log[1].warned
    /\ inj_log[1].dispatches = 1
    /\ inj_log[1].cmd.prog = "python3"

\* C8: a dispatch succeeds exactly when the detached exec returns exit code 0
\* or none, and fails when it returns another code or raises; a failed
\* dispatch or handle lookup does not stop the loop, which ends having handled
\* every name.
C8_DispatchOutcome ==
    /\ \A k \in 1..Len(inj_log) :
            inj_log[k].dispatches = 1 =>
                /\ (inj_log[k].outcome = "success") <=>
                        (~inj_log[k].exec.raised /\ inj_log[k].exec.exit_code \in {{0}, {}})
                /\ (inj_log[k].outcome = "failed") <=>
                        (inj_log[k].exec.raised \/ inj_log[k].exec.exit_code \notin {{0}, {}})
    /\ (\E k \in 1..Len(inj_log) : inj_log[k].outcome = "failed" \/ inj_log[k].kind = "no_access") =>
            /\ inj_pc \in {"loop", "done"}
            /\ Len(inj_log) = inj_i - 1
            /\ (inj_pc = "done" => Len(inj_log) = inj_args.containers)

\* C8 witness: the first dispatch failed with exit code 126 and the second
\* one, with no exit code yet, succeeded.
C8_Witness ==
    /\ inj_pc = "done"
    /\ Len(inj_log) = 2
    /\ inj_log[1].exec.exit_code = {126} /\ inj_log[1].outcome = "failed"
    /\ inj_log[2].exec.exit_code = {} /\ ~inj_log[2].exec.raised
    /\ inj_log[2].dispatches = 1 /\ inj_log[2].outcome = "success"

(***************************************************************************)
(* Properties of both scripts                                              *)
(***************************************************************************)
\* C9: no error of an external collaborator aborts the process: neither
\* script ever ends in an uncaught exception, and each ends having visited
\* every container.
C9_NoProcessAbort ==
    /\ mon_pc # "aborted"
    /\ inj_pc # "aborted"
    /\ (mon_pc = "done" => Len(mon_log) = mon_n)
    /\ (inj_pc = "done" => Len(inj_log) = inj_args.containers)

\* C10: every command line accepted by the CLI gives a duration > 0, so no
\* probe or dispatch is ever made with a duration of 0 or less.
C10_DurationPositive ==
    \A k \in 1..Len(inj_log) :
        (inj_log[k].probes = 1 \/ inj_log[k].dispatches = 1) =>
            /\ inj_log[k].duration > 0
            /\ \A t \in inj_log[k].cmd.timeout : t > 0

====
